---- MODULE Spec2Model ----
(***************************************************************************)
(* A model of cppzstd.h: the RAII wrappers TrainData, CDict, DDict and the *)
(* thread-local facades Compress and Decompress over the zstd engine.      *)
(*                                                                         *)
(* The engine (zstd) is an external library.  Its handles are modelled as  *)
(* allocation identities in small heaps, its codec as a small framing      *)
(* format with a raw and a run-length block, so that the wrappers'         *)
(* argument passing, resizing and error translation can be observed.       *)
(***************************************************************************)
EXTENDS Integers, Sequences, FiniteSets, TLC

\* ------------------------------------------------------------------ bounds
NumTrain == 2
NumCDict == 2
NumDDict == 2
MaxHandles == 2
NumCorpus == 2
MaxCLevel == 2
NumThreads == 2
MaxLen == 2
SizeBits == 16

TrainObjs == 1..NumTrain
CDictObjs == 1..NumCDict
DDictObjs == 1..NumDDict
Handles == 1..MaxHandles
Corpora == 1..NumCorpus
Levels == 1..MaxCLevel
Threads == 1..NumThreads
\* Two byte values tell a run from a payload that is no run.
Bytes == {0, 1}

\* nullptr
NULL == 0

\* TrainData(std::size_t size=100*1024*1024)
DefaultTrainSize == 100 * 1024 * 1024

VARIABLES
    mDictBuffer,   \* TrainData::mDictBuffer of each TrainData object
    cdict,         \* each CDict object: its lifetime and CDict::mDict
    ddict,         \* each DDict object: its lifetime and DDict::mDict
    engCDict,      \* the engine's ZSTD_CDict allocations
    engDDict,      \* the engine's ZSTD_DDict allocations
    thread,        \* each thread: "running" or "exited"
    compressInstr, \* Compress::instance()'s thread_local instr, per storage slot
    decompressInstr, \* Decompress::instance()'s thread_local instr, per storage slot
    engCCtx,       \* the engine's ZSTD_CCtx allocations
    engDCtx,       \* the engine's ZSTD_DCtx allocations
    dst,           \* each thread's output std::vector<char>
    origin,        \* what dst holds: the payload and dictionary it was compressed from
    last,          \* the most recent call and how it ended
    crashed        \* the process was brought down by undefined behaviour

dictVars == <<mDictBuffer, cdict, ddict, engCDict, engDDict>>
codecVars == <<thread, compressInstr, decompressInstr, engCCtx, engDCtx, dst, origin>>
vars == <<dictVars, codecVars, last, crashed>>

\* ------------------------------------------------------------ engine heap
\* An allocation of the engine: never handed out again once freed here, so
\* an identity names one allocation (frees counts the calls of the free
\* function on it).
FreshCell == [st |-> "unalloc", frees |-> 0, content |-> 0, level |-> 0]

Min(S) == CHOOSE x \in S : \A y \in S : x <= y

\* What a create function returns: a fresh allocation, or NULL when the
\* engine cannot allocate.
NewHandle(heap, allocOk) ==
    LET free == {h \in DOMAIN heap : heap[h].st = "unalloc"} IN
    IF allocOk /\ free # {} THEN Min(free) ELSE NULL

\* ZSTD_createCDict / ZSTD_createDDict: the allocation digests the buffer.
EngineCreateDict(heap, h, content, level) ==
    [heap EXCEPT ![h] = [st |-> "live", frees |-> 0, content |-> content, level |-> level]]

\* ZSTD_freeCDict / ZSTD_freeDDict: NULL is accepted and ignored.
EngineFree(heap, h) ==
    IF h = NULL THEN heap
    ELSE [heap EXCEPT ![h] = [@ EXCEPT !.st = "freed",
                                       !.frees = IF @ < 2 THEN @ + 1 ELSE 2]]

\* Freeing an allocation that is not live is undefined behaviour.
FreeIsUB(heap, h) == h # NULL /\ heap[h].st # "live"

\* --------------------------------------------------------------- observer
NoCall == [op |-> "none", status |-> "ok"]

\* ---------------------------------------------------------------- TrainData
\* train(samples): the engine fills the buffer from the corpus; an engine
\* error becomes ZError.  The buffer keeps its size.  What a failed training
\* leaves in the buffer is the engine's business: untouched or scribbled.
Scribbled == 0 - 1

\* A train that cuts the buffer down to the dictionary it holds.
TrainData_train_fit(d, corpus, engineOk, touched) ==
    /\ ~crashed
    /\ mDictBuffer' = [mDictBuffer EXCEPT ![d] =
           [@ EXCEPT !.content = IF engineOk THEN corpus
                                 ELSE IF touched THEN Scribbled ELSE @,
                     !.writes = IF engineOk \/ touched
                                THEN (IF @ < 2 THEN @ + 1 ELSE 2) ELSE @,
                     !.size = IF engineOk THEN 1 ELSE @]]
    /\ last' = [op |-> "train", status |-> IF engineOk THEN "ok" ELSE "ZError"]
    /\ UNCHANGED <<cdict, ddict, engCDict, engDDict, crashed, codecVars>>

TrainData_train(d, corpus, engineOk, touched) ==
    /\ ~crashed
    /\ mDictBuffer' = [mDictBuffer EXCEPT ![d] =
           [@ EXCEPT !.content = IF engineOk THEN corpus
                                 ELSE IF touched THEN Scribbled ELSE @,
                     !.writes = IF engineOk \/ touched
                                THEN (IF @ < 2 THEN @ + 1 ELSE 2) ELSE @]]
    /\ last' = [op |-> "train", status |-> IF engineOk THEN "ok" ELSE "ZError"]
    /\ UNCHANGED <<cdict, ddict, engCDict, engDDict, crashed, codecVars>>

\* void const* data() const; std::size_t size() const
TrainData_data(d) == mDictBuffer[d].content
TrainData_size(d) == mDictBuffer[d].size

\* A caller reads data() and size().
TrainData_read(d) ==
    /\ ~crashed
    /\ last' = [op |-> "size", status |-> "ok", d |-> d,
                val |-> TrainData_size(d), data |-> TrainData_data(d)]
    /\ UNCHANGED <<dictVars, codecVars, crashed>>

\* -------------------------------------------------------------------- CDict
\* A constructor that keeps the nullptr instead of throwing.
CDict_Ctor_nothrow(o, d, compressionLevel, allocOk) ==
    /\ ~crashed
    /\ cdict[o].life = "none"
    /\ LET h == NewHandle(engCDict, allocOk) IN
       /\ engCDict' = IF h = NULL THEN engCDict
                      ELSE EngineCreateDict(engCDict, h, TrainData_data(d), compressionLevel)
       /\ cdict' = [cdict EXCEPT ![o] = [life |-> "live", mDict |-> h]]
       /\ last' = [op |-> "CDict", status |-> "ok"]
    /\ UNCHANGED <<mDictBuffer, ddict, engDDict, crashed, codecVars>>

\* CDict(TrainData const &data, int compressionLevel)
CDict_Ctor(o, d, compressionLevel, allocOk) ==
    /\ ~crashed
    /\ cdict[o].life = "none"
    /\ LET h == NewHandle(engCDict, allocOk) IN
       IF h = NULL
       THEN /\ last' = [op |-> "CDict", status |-> "bad_alloc"]
            /\ UNCHANGED <<cdict, engCDict>>
       ELSE /\ engCDict' = EngineCreateDict(engCDict, h, TrainData_data(d), compressionLevel)
            /\ cdict' = [cdict EXCEPT ![o] = [life |-> "live", mDict |-> h]]
            /\ last' = [op |-> "CDict", status |-> "ok"]
    /\ UNCHANGED <<mDictBuffer, ddict, engDDict, crashed, codecVars>>

\* CDict(CDict &&) = default: memberwise, the pointer is copied.
CDict_MoveCtor(o, from) ==
    /\ ~crashed
    /\ o # from
    /\ cdict[o].life = "none"
    /\ cdict[from].life = "live"
    /\ cdict' = [cdict EXCEPT ![o] = [life |-> "live", mDict |-> cdict[from].mDict]]
    /\ last' = [op |-> "CDict(&&)", status |-> "ok"]
    /\ UNCHANGED <<mDictBuffer, ddict, engCDict, engDDict, crashed, codecVars>>

\* CDict& operator=(CDict &&) = default: memberwise, the pointer is copied.
CDict_MoveAssign(o, from) ==
    /\ ~crashed
    /\ o # from
    /\ cdict[o].life = "live"
    /\ cdict[from].life = "live"
    /\ cdict' = [cdict EXCEPT ![o].mDict = cdict[from].mDict]
    /\ last' = [op |-> "CDict=", status |-> "ok"]
    /\ UNCHANGED <<mDictBuffer, ddict, engCDict, engDDict, crashed, codecVars>>

\* ~CDict()
CDict_Dtor(o, ubCrash) ==
    /\ ~crashed
    /\ cdict[o].life = "live"
    /\ cdict' = [cdict EXCEPT ![o].life = "dead"]
    /\ engCDict' = EngineFree(engCDict, cdict[o].mDict)
    /\ crashed' = (FreeIsUB(engCDict, cdict[o].mDict) /\ ubCrash)
    /\ last' = [op |-> "~CDict", status |-> "ok"]
    /\ UNCHANGED <<mDictBuffer, ddict, engDDict, codecVars>>

CDict_get(o) == cdict[o].mDict

\* -------------------------------------------------------------------- DDict
\* DDict(TrainData const &data)
DDict_Ctor(o, d, allocOk) ==
    /\ ~crashed
    /\ ddict[o].life = "none"
    /\ LET h == NewHandle(engDDict, allocOk) IN
       IF h = NULL
       THEN /\ last' = [op |-> "DDict", status |-> "bad_alloc"]
            /\ UNCHANGED <<ddict, engDDict>>
       ELSE /\ engDDict' = EngineCreateDict(engDDict, h, TrainData_data(d), 0)
            /\ ddict' = [ddict EXCEPT ![o] = [life |-> "live", mDict |-> h]]
            /\ last' = [op |-> "DDict", status |-> "ok"]
    /\ UNCHANGED <<mDictBuffer, cdict, engCDict, crashed, codecVars>>

\* DDict(DDict &&) = default
DDict_MoveCtor(o, from) ==
    /\ ~crashed
    /\ o # from
    /\ ddict[o].life = "none"
    /\ ddict[from].life = "live"
    /\ ddict' = [ddict EXCEPT ![o] = [life |-> "live", mDict |-> ddict[from].mDict]]
    /\ last' = [op |-> "DDict(&&)", status |-> "ok"]
    /\ UNCHANGED <<mDictBuffer, cdict, engCDict, engDDict, crashed, codecVars>>

\* DDict& operator=(DDict &&) = default
DDict_MoveAssign(o, from) ==
    /\ ~crashed
    /\ o # from
    /\ ddict[o].life = "live"
    /\ ddict[from].life = "live"
    /\ ddict' = [ddict EXCEPT ![o].mDict = ddict[from].mDict]
    /\ last' = [op |-> "DDict=", status |-> "ok"]
    /\ UNCHANGED <<mDictBuffer, cdict, engCDict, engDDict, crashed, codecVars>>

\* ~DDict()
DDict_Dtor(o, ubCrash) ==
    /\ ~crashed
    /\ ddict[o].life = "live"
    /\ ddict' = [ddict EXCEPT ![o].life = "dead"]
    /\ engDDict' = EngineFree(engDDict, ddict[o].mDict)
    /\ crashed' = (FreeIsUB(engDDict, ddict[o].mDict) /\ ubCrash)
    /\ last' = [op |-> "~DDict", status |-> "ok"]
    /\ UNCHANGED <<mDictBuffer, cdict, engCDict, codecVars>>

DDict_get(o) == ddict[o].mDict

\* ------------------------------------------------------------ engine codec
\* size_t results, SizeBits wide.  An engine error is (size_t)-code.
SizeMod == 2 ^ SizeBits

ZSTD_ErrorCode(name) ==
    CASE name = "prefix_unknown" -> 10
      [] name = "corruption_detected" -> 20
      [] name = "dictionary_wrong" -> 32
      [] name = "memory_allocation" -> 64
      [] name = "dstSize_tooSmall" -> 70
      [] name = "srcSize_wrong" -> 72
      [] name = "maxCode" -> 120

ERROR(name) == SizeMod - ZSTD_ErrorCode(name)

ZSTD_isError(code) == code > ERROR("maxCode")

ZSTD_CONTENTSIZE_UNKNOWN == SizeMod - 1
ZSTD_CONTENTSIZE_ERROR == SizeMod - 2

\* A frame: magic, dictionary id (0: none), content size + 1 (0: not
\* declared), block type, block.  A raw block is the payload; a run-length
\* block is one byte, repeated content-size times.
FrameMagic == 40
BlockRaw == 0
BlockRLE == 1
NoDict == 0

Payloads == UNION {[1..n -> Bytes] : n \in 0..MaxLen}

Repeat(b, n) == [i \in 1..n |-> b]

ZSTD_Encode(src, level, dictID) ==
    LET n == Len(src)
        rle == level >= 2 /\ n >= 2 /\ \A i \in 1..n : src[i] = src[1]
    IN <<FrameMagic, dictID, n + 1>>
           \o (IF rle THEN <<BlockRLE, src[1]>> ELSE <<BlockRaw>> \o src)

FrameOverhead == Len(ZSTD_Encode(<<>>, 1, NoDict))

ZSTD_compressBound(srcSize) == srcSize + FrameOverhead

\* One-shot compression of src[1..srcSize] into a destination of dstCapacity
\* bytes: the engine's result code and the bytes it wrote.
ZSTD_compress(dstCapacity, src, srcSize, level, dictID, fault) ==
    LET frame == ZSTD_Encode(SubSeq(src, 1, srcSize), level, dictID) IN
    IF fault THEN [code |-> ERROR("memory_allocation"), out |-> <<>>]
    ELSE IF Len(frame) > dstCapacity THEN [code |-> ERROR("dstSize_tooSmall"), out |-> <<>>]
    ELSE [code |-> Len(frame), out |-> frame]

\* One-shot decompression of the frame src[1..srcSize] with the dictionary
\* dictID (NoDict: none) into a destination of dstCapacity bytes.
ZSTD_decompress(dstCapacity, src, srcSize, dictID, fault) ==
    LET f == SubSeq(src, 1, srcSize)
        fail(name) == [code |-> ERROR(name), out |-> <<>>]
        body == SubSeq(f, FrameOverhead + 1, Len(f))
        declared == f[3] - 1
        payload == IF f[4] = BlockRaw THEN body ELSE Repeat(body[1], declared)
    IN IF fault THEN fail("memory_allocation")
       ELSE IF Len(f) < FrameOverhead THEN fail("srcSize_wrong")
       ELSE IF f[1] # FrameMagic THEN fail("prefix_unknown")
       ELSE IF f[2] # NoDict /\ f[2] # dictID THEN fail("dictionary_wrong")
       ELSE IF f[4] \notin {BlockRaw, BlockRLE} THEN fail("corruption_detected")
       ELSE IF f[4] = BlockRLE /\ (Len(body) # 1 \/ f[3] = 0) THEN fail("corruption_detected")
       ELSE IF f[4] = BlockRaw /\ f[3] # 0 /\ Len(body) # declared THEN fail("srcSize_wrong")
       ELSE IF Len(payload) > dstCapacity THEN fail("dstSize_tooSmall")
       ELSE [code |-> Len(payload), out |-> payload]

\* ZSTD_getFrameContentSize
ZSTD_getFrameContentSize(src, srcSize) ==
    LET f == SubSeq(src, 1, srcSize) IN
    IF Len(f) < FrameOverhead \/ f[1] # FrameMagic THEN ZSTD_CONTENTSIZE_ERROR
    ELSE IF f[3] = 0 THEN ZSTD_CONTENTSIZE_UNKNOWN
    ELSE f[3] - 1

\* Frames that no compress call of this program produced: empty input, a
\* frame of a streaming producer that declares no size, a wrong magic, a
\* truncated frame.
ForeignFrames ==
    { <<>>,
      <<FrameMagic, NoDict, 0, BlockRaw, 0>>,
      <<0, NoDict, 1, BlockRaw>>,
      <<FrameMagic, NoDict, 2, BlockRaw>> }

\* ------------------------------------------------------------ std::vector
\* resize keeps the leading elements and value-initialises new ones.
Resize(v, n) == IF n <= Len(v) THEN SubSeq(v, 1, n) ELSE v \o Repeat(0, n - Len(v))

\* The engine writes out at the start of the buffer.
WriteAt(buf, out) == out \o SubSeq(buf, Len(out) + 1, Len(buf))

\* ------------------------------------------------------- thread-local instr
FreshCtx == [st |-> "unalloc", frees |-> 0, creator |-> 0, users |-> {}]
NoInstr == [init |-> FALSE, mContext |-> NULL]
\* Where bytes come from: the payload they were compressed from, whether a
\* CDict was used and what that dictionary was built from.
Unknown == [known |-> FALSE, src |-> <<>>, dict |-> NoDict, withDict |-> FALSE]

\* A function-local static in place of thread_local: one slot for the process.
Compress_instance_static(t) == 1

\* static Compress& instance() { thread_local Compress instr; return instr; }
\* The storage slot the calling thread reaches: its own.
Compress_instance(t) == t

\* static Decompress& instance() { thread_local Decompress instr; return instr; }
Decompress_instance(t) == t

\* ZSTD_createCCtx / ZSTD_createDCtx: a fresh allocation or NULL.  Which
\* address the engine hands out is immaterial; thread t is given the cell of
\* its own index while that one is fresh, so that runs which differ only in
\* the addresses of the contexts coincide.
NewContext(heap, t, allocOk) ==
    IF allocOk /\ t \in DOMAIN heap /\ heap[t].st = "unalloc" THEN t
    ELSE NewHandle(heap, allocOk)

\* An instance() that constructs a Compress on every call.
AcquireCtx_always(instr, heap, k, t, allocOk) ==
    LET h == NewContext(heap, t, allocOk) IN
    IF h = NULL
    THEN [ok |-> FALSE, instr |-> instr, heap |-> heap, ctx |-> NULL]
    ELSE [ok |-> TRUE,
          instr |-> [instr EXCEPT ![k] = [init |-> TRUE, mContext |-> h]],
          heap |-> [heap EXCEPT ![h] = [FreshCtx EXCEPT !.st = "live", !.creator = t]],
          ctx |-> h]

\* The first pass through the declaration runs the constructor, which asks
\* the engine for a context and throws std::bad_alloc on nullptr; an instr
\* whose constructor threw is constructed again by the next call.
AcquireCtx(instr, heap, k, t, allocOk) ==
    IF instr[k].init
    THEN [ok |-> TRUE, instr |-> instr, heap |-> heap, ctx |-> instr[k].mContext]
    ELSE LET h == NewContext(heap, t, allocOk) IN
         IF h = NULL
         THEN [ok |-> FALSE, instr |-> instr, heap |-> heap, ctx |-> NULL]
         ELSE [ok |-> TRUE,
               instr |-> [instr EXCEPT ![k] = [init |-> TRUE, mContext |-> h]],
               heap |-> [heap EXCEPT ![h] = [FreshCtx EXCEPT !.st = "live", !.creator = t]],
               ctx |-> h]

Compress_Acquire(t, allocOk) ==
    AcquireCtx(compressInstr, engCCtx, Compress_instance(t), t, allocOk)

Decompress_Acquire(t, allocOk) ==
    AcquireCtx(decompressInstr, engDCtx, Decompress_instance(t), t, allocOk)

\* The engine works in the context it is handed.
UseCtx(heap, h, t) ==
    [heap EXCEPT ![h].users = @ \cup {t}]

\* A destructor that forgets the context.
Compress_Dtor_leak(heap, instr) == heap

\* ~Compress() { ZSTD_freeCCtx(mContext); }
Compress_Dtor(heap, instr) == IF instr.init THEN EngineFree(heap, instr.mContext) ELSE heap

\* ~Decompress() { ZSTD_freeDCtx(mContext); }
Decompress_Dtor(heap, instr) == IF instr.init THEN EngineFree(heap, instr.mContext) ELSE heap

\* Thread teardown destroys the thread's thread_local objects, and with the
\* thread's stack its output vector: the storage of both is gone.
Thread_exit(t) ==
    /\ ~crashed
    /\ thread[t] = "running"
    /\ thread' = [thread EXCEPT ![t] = "exited"]
    /\ engCCtx' = Compress_Dtor(engCCtx, compressInstr[t])
    /\ engDCtx' = Decompress_Dtor(engDCtx, decompressInstr[t])
    /\ compressInstr' = [compressInstr EXCEPT ![t] = NoInstr]
    /\ decompressInstr' = [decompressInstr EXCEPT ![t] = NoInstr]
    /\ dst' = [dst EXCEPT ![t] = <<>>]
    /\ origin' = [origin EXCEPT ![t] = Unknown]
    /\ last' = [op |-> "exit", status |-> "ok", t |-> t]
    /\ UNCHANGED <<dictVars, crashed>>

\* ----------------------------------------------------------------- Compress
\* if (ZSTD_isError(res)) throw ZError(...)
Translate(res) == IF ZSTD_isError(res) THEN "ZError" ELSE "ok"

\* A compressbound that leaves no room for the frame's header.
Compress_compressbound_short(srcSize) == srcSize

\* static std::size_t compressbound(std::size_t srcSize)
Compress_compressbound(srcSize) == ZSTD_compressBound(srcSize)

\* ZSTD_compressCCtx(cctx, dst, dstCapacity, src, srcSize, compressionLevel)
ZSTD_compressCCtx(dstCapacity, src, srcSize, compressionLevel, fault) ==
    ZSTD_compress(dstCapacity, src, srcSize, compressionLevel, NoDict, fault)

\* ZSTD_compress_usingCDict(cctx, dst, dstCapacity, src, srcSize, cdict)
ZSTD_compress_usingCDict(dstCapacity, src, srcSize, h, fault) ==
    ZSTD_compress(dstCapacity, src, srcSize, engCDict[h].level, engCDict[h].content, fault)

\* A compress that leaves the vector at the bound.
Compress_shrink_none(buf, res) == buf

\* dst.resize(res)
Compress_shrink(buf, res) == Resize(buf, res)

\* What a call is observed to do.  reused: the thread's instr was constructed
\* before the call; after: the call right before was a call of the same thread
\* on the same facade and ended in ZError.
Outcome(op, t, status, res, val, out, ctx, calls, cap, org, dictc, fault, reused, after) ==
    [op |-> op, t |-> t, status |-> status, res |-> res, val |-> val, out |-> out,
     ctx |-> ctx, calls |-> calls, cap |-> cap, org |-> org, dictc |-> dictc,
     fault |-> fault, reused |-> reused, after |-> after]

CompressOps == {"compress", "compress_raw", "compress_dict", "compress_dict_raw"}
ManagedOps == {"compress", "compress_dict"}
DecompressOps == {"decompress", "decompress_dict"}
DictOps == {"compress_dict", "compress_dict_raw", "decompress_dict"}

PreviousFailed(ops, t) == last.op \in ops /\ last.t = t /\ last.status = "ZError"

\* The part all four compress overloads share: obtain the thread's context,
\* call the engine once on a destination buffer buf, translate the result.
\* managed: whether the destination is the caller's vector, shrunk on
\* success.  The observation of a compress call also keeps srcSize.
CompressCall(op, t, buf, src, srcSize, r, acq, dictc, fault, managed) ==
    LET status == IF acq.ok THEN Translate(r.code) ELSE "bad_alloc"
        written == WriteAt(buf, r.out)
        newdst == IF status # "ok" THEN buf
                  ELSE IF managed THEN Compress_shrink(written, r.code)
                  ELSE SubSeq(written, 1, r.code)
    IN /\ compressInstr' = acq.instr
       /\ engCCtx' = IF acq.ok THEN UseCtx(acq.heap, acq.ctx, t) ELSE acq.heap
       /\ dst' = [dst EXCEPT ![t] = newdst]
       /\ origin' = [origin EXCEPT ![t] =
              IF status = "ok"
              THEN [known |-> TRUE, src |-> SubSeq(src, 1, srcSize), dict |-> dictc,
                    withDict |-> op \in DictOps]
              ELSE Unknown]
       /\ last' = Outcome(op, t, status,
                          IF acq.ok THEN r.code ELSE 0,
                          IF status = "ok" THEN (IF managed THEN Len(newdst) ELSE r.code) ELSE 0,
                          <<>>, acq.ctx, IF acq.ok THEN 1 ELSE 0,
                          Len(buf), Unknown, dictc, fault,
                          compressInstr[Compress_instance(t)].init,
                          PreviousFailed(CompressOps, t))
                  @@ [srcSize |-> srcSize]
       /\ UNCHANGED <<dictVars, thread, decompressInstr, engDCtx, crashed>>

\* A managed compress that hands the vector back as it was when the engine
\* fails.
Compress_compress_vec_restore(t, src, srcSize, compressionLevel, allocOk, fault) ==
    /\ ~crashed
    /\ thread[t] = "running"
    /\ LET sized == Resize(dst[t], Compress_compressbound(srcSize))
           r == ZSTD_compressCCtx(Len(sized), src, srcSize, compressionLevel, fault)
       IN CompressCall("compress", t,
                       IF Translate(r.code) = "ok" THEN sized ELSE dst[t],
                       src, srcSize, r,
                       Compress_Acquire(t, allocOk), NoDict, fault, TRUE)

\* static void compress(std::vector<char> &dst, const void* src, size_t srcSize,
\*                      int compressionLevel)
Compress_compress_vec(t, src, srcSize, compressionLevel, allocOk, fault) ==
    /\ ~crashed
    /\ thread[t] = "running"
    /\ LET sized == Resize(dst[t], Compress_compressbound(srcSize)) IN
       CompressCall("compress", t, sized, src, srcSize,
                    ZSTD_compressCCtx(Len(sized), src, srcSize, compressionLevel, fault),
                    Compress_Acquire(t, allocOk), NoDict, fault, TRUE)

\* A raw compress that tells the engine of one byte more than the caller has.
Compress_compress_raw_overclaim(t, dstCapacity, src, srcSize, compressionLevel, allocOk, fault) ==
    /\ ~crashed
    /\ thread[t] = "running"
    /\ CompressCall("compress_raw", t, Repeat(0, dstCapacity), src, srcSize,
                    ZSTD_compressCCtx(dstCapacity + 1, src, srcSize, compressionLevel, fault),
                    Compress_Acquire(t, allocOk), NoDict, fault, FALSE)

\* static std::size_t compress(void* dst, size_t dstCapacity, const void* src,
\*                             size_t srcSize, int compressionLevel)
\* The caller's destination is dstCapacity fresh bytes; the caller keeps the
\* returned number of them.
Compress_compress_raw(t, dstCapacity, src, srcSize, compressionLevel, allocOk, fault) ==
    /\ ~crashed
    /\ thread[t] = "running"
    /\ CompressCall("compress_raw", t, Repeat(0, dstCapacity), src, srcSize,
                    ZSTD_compressCCtx(dstCapacity, src, srcSize, compressionLevel, fault),
                    Compress_Acquire(t, allocOk), NoDict, fault, FALSE)

\* static void compress(CDict const &dict, std::vector<char> &dst,
\*                      const void* src, size_t srcSize)
Compress_compress_dict_vec(t, o, src, srcSize, allocOk, fault) ==
    /\ ~crashed
    /\ thread[t] = "running"
    /\ cdict[o].life = "live"
    /\ LET sized == Resize(dst[t], Compress_compressbound(srcSize)) IN
       CompressCall("compress_dict", t, sized, src, srcSize,
                    ZSTD_compress_usingCDict(Len(sized), src, srcSize, CDict_get(o), fault),
                    Compress_Acquire(t, allocOk), engCDict[CDict_get(o)].content, fault, TRUE)

\* static std::size_t compress(CDict const &dict, void* dst, size_t dstCapacity,
\*                             const void* src, size_t srcSize)
Compress_compress_dict_raw(t, o, dstCapacity, src, srcSize, allocOk, fault) ==
    /\ ~crashed
    /\ thread[t] = "running"
    /\ cdict[o].life = "live"
    /\ CompressCall("compress_dict_raw", t, Repeat(0, dstCapacity), src, srcSize,
                    ZSTD_compress_usingCDict(dstCapacity, src, srcSize, CDict_get(o), fault),
                    Compress_Acquire(t, allocOk), engCDict[CDict_get(o)].content, fault, FALSE)

\* --------------------------------------------------------------- Decompress
\* ZSTD_decompressDCtx(dctx, dst, dstCapacity, src, srcSize)
ZSTD_decompressDCtx(dstCapacity, src, srcSize, fault) ==
    ZSTD_decompress(dstCapacity, src, srcSize, NoDict, fault)

\* ZSTD_decompress_usingDDict(dctx, dst, dstCapacity, src, srcSize, ddict)
ZSTD_decompress_usingDDict(dstCapacity, src, srcSize, h, fault) ==
    ZSTD_decompress(dstCapacity, src, srcSize, engDDict[h].content, fault)

\* A frameContentSize without the test for ZSTD_CONTENTSIZE_UNKNOWN.
Decompress_frameContentSize_noUnknown(t, src, srcSize, org) ==
    /\ ~crashed
    /\ thread[t] = "running"
    /\ LET size == ZSTD_getFrameContentSize(src, srcSize)
           status == IF size = ZSTD_CONTENTSIZE_ERROR THEN "ZError" ELSE "ok"
       IN last' = [op |-> "frameContentSize", t |-> t, status |-> status, res |-> size,
                   val |-> IF status = "ok" THEN size ELSE 0, out |-> <<>>, ctx |-> NULL,
                   calls |-> 1, cap |-> 0, org |-> org, dictc |-> NoDict, fault |-> FALSE,
                   reused |-> FALSE, after |-> FALSE]
    /\ UNCHANGED <<dictVars, codecVars, crashed>>

\* static std::size_t frameContentSize(const void *src, size_t srcSize)
Decompress_frameContentSize(t, src, srcSize, org) ==
    /\ ~crashed
    /\ thread[t] = "running"
    /\ LET size == ZSTD_getFrameContentSize(src, srcSize)
           status == IF size = ZSTD_CONTENTSIZE_UNKNOWN THEN "ZUnknownSize"
                     ELSE IF size = ZSTD_CONTENTSIZE_ERROR THEN "ZError"
                     ELSE "ok"
       IN last' = Outcome("frameContentSize", t, status, size,
                          IF status = "ok" THEN size ELSE 0,
                          <<>>, NULL, 1, 0, org, NoDict, FALSE, FALSE, FALSE)
    /\ UNCHANGED <<dictVars, codecVars, crashed>>

\* A decompress that returns the engine's result without testing it.
DecompressCall_unchecked(op, t, dstCapacity, r, acq, org, dictc, fault) ==
    LET status == IF acq.ok THEN "ok" ELSE "bad_alloc" IN
    /\ decompressInstr' = acq.instr
    /\ engDCtx' = IF acq.ok THEN UseCtx(acq.heap, acq.ctx, t) ELSE acq.heap
    /\ last' = [op |-> op, t |-> t, status |-> status, res |-> IF acq.ok THEN r.code ELSE 0,
                val |-> IF status = "ok" THEN r.code ELSE 0, out |-> r.out, ctx |-> acq.ctx,
                calls |-> IF acq.ok THEN 1 ELSE 0, cap |-> dstCapacity, org |-> org,
                dictc |-> dictc, fault |-> fault, reused |-> FALSE, after |-> FALSE]
    /\ UNCHANGED <<dictVars, thread, compressInstr, engCCtx, dst, origin, crashed>>

\* A decompress that takes the dictionary objects' handles away.
DecompressCall_dropdict(op, t, dstCapacity, r, acq, org, dictc, fault) ==
    LET status == IF acq.ok THEN Translate(r.code) ELSE "bad_alloc" IN
    /\ decompressInstr' = acq.instr
    /\ engDCtx' = IF acq.ok THEN UseCtx(acq.heap, acq.ctx, t) ELSE acq.heap
    /\ last' = Outcome(op, t, status,
                       IF acq.ok THEN r.code ELSE 0,
                       IF status = "ok" THEN r.code ELSE 0,
                       IF status = "ok" THEN r.out ELSE <<>>,
                       acq.ctx, IF acq.ok THEN 1 ELSE 0,
                       dstCapacity, org, dictc, fault,
                       decompressInstr[Decompress_instance(t)].init,
                       PreviousFailed(DecompressOps, t))
    /\ ddict' = [o \in DOMAIN ddict |-> [ddict[o] EXCEPT !.mDict = NULL]]
    /\ UNCHANGED <<mDictBuffer, cdict, engCDict, engDDict>>
    /\ UNCHANGED <<thread, compressInstr, engCCtx, dst, origin, crashed>>

\* The part both decompress overloads share: obtain the thread's context,
\* call the engine once, translate the result.
DecompressCall(op, t, dstCapacity, r, acq, org, dictc, fault) ==
    LET status == IF acq.ok THEN Translate(r.code) ELSE "bad_alloc" IN
    /\ decompressInstr' = acq.instr
    /\ engDCtx' = IF acq.ok THEN UseCtx(acq.heap, acq.ctx, t) ELSE acq.heap
    /\ last' = Outcome(op, t, status,
                       IF acq.ok THEN r.code ELSE 0,
                       IF status = "ok" THEN r.code ELSE 0,
                       IF status = "ok" THEN r.out ELSE <<>>,
                       acq.ctx, IF acq.ok THEN 1 ELSE 0,
                       dstCapacity, org, dictc, fault,
                       decompressInstr[Decompress_instance(t)].init,
                       PreviousFailed(DecompressOps, t))
    /\ UNCHANGED <<dictVars, thread, compressInstr, engCCtx, dst, origin, crashed>>

\* static std::size_t decompress(void* dst, size_t dstCapacity,
\*                               const void* src, size_t srcSize)
\* org: where the caller's source bytes come from.
Decompress_decompress(t, dstCapacity, src, srcSize, org, allocOk, fault) ==
    /\ ~crashed
    /\ thread[t] = "running"
    /\ DecompressCall("decompress", t, dstCapacity,
                      ZSTD_decompressDCtx(dstCapacity, src, srcSize, fault),
                      Decompress_Acquire(t, allocOk), org, NoDict, fault)

\* A dictionary overload that calls the engine without the dictionary.
Decompress_decompress_dict_nodict(t, o, dstCapacity, src, srcSize, org, allocOk, fault) ==
    /\ ~crashed
    /\ thread[t] = "running"
    /\ ddict[o].life = "live"
    /\ DecompressCall("decompress_dict", t, dstCapacity,
                      ZSTD_decompressDCtx(dstCapacity, src, srcSize, fault),
                      Decompress_Acquire(t, allocOk), org, engDDict[DDict_get(o)].content, fault)

\* static std::size_t decompress(DDict const &dict, void* dst, size_t dstCapacity,
\*                               const void* src, size_t srcSize)
Decompress_decompress_dict(t, o, dstCapacity, src, srcSize, org, allocOk, fault) ==
    /\ ~crashed
    /\ thread[t] = "running"
    /\ ddict[o].life = "live"
    /\ DecompressCall("decompress_dict", t, dstCapacity,
                      ZSTD_decompress_usingDDict(dstCapacity, src, srcSize, DDict_get(o), fault),
                      Decompress_Acquire(t, allocOk), org, engDDict[DDict_get(o)].content, fault)

\* ------------------------------------------------------------ specification
Init ==
    /\ mDictBuffer = [d \in TrainObjs |-> [size |-> DefaultTrainSize, content |-> 0, writes |-> 0]]
    /\ cdict = [o \in CDictObjs |-> [life |-> "none", mDict |-> NULL]]
    /\ ddict = [o \in DDictObjs |-> [life |-> "none", mDict |-> NULL]]
    /\ engCDict = [h \in Handles |-> FreshCell]
    /\ engDDict = [h \in Handles |-> FreshCell]
    /\ thread = [t \in Threads |-> "running"]
    /\ compressInstr = [t \in Threads |-> NoInstr]
    /\ decompressInstr = [t \in Threads |-> NoInstr]
    /\ engCCtx = [h \in Handles |-> FreshCtx]
    /\ engDCtx = [h \in Handles |-> FreshCtx]
    /\ dst = [t \in Threads |-> <<>>]
    /\ origin = [t \in Threads |-> Unknown]
    /\ last = NoCall
    /\ crashed = FALSE

Train == \E d \in TrainObjs, c \in Corpora, ok \in BOOLEAN, touched \in BOOLEAN :
             TrainData_train(d, c, ok, touched)
CDictCreate == \E o \in CDictObjs, d \in TrainObjs, ok \in BOOLEAN :
                   CDict_Ctor(o, d, MaxCLevel, ok)
CDictMove == \E o \in CDictObjs, from \in CDictObjs : CDict_MoveCtor(o, from)
CDictAssign == \E o \in CDictObjs, from \in CDictObjs : CDict_MoveAssign(o, from)
CDictDestroy == \E o \in CDictObjs, c \in BOOLEAN : CDict_Dtor(o, c)
DDictCreate == \E o \in DDictObjs, d \in TrainObjs, ok \in BOOLEAN : DDict_Ctor(o, d, ok)
DDictMove == \E o \in DDictObjs, from \in DDictObjs : DDict_MoveCtor(o, from)
DDictAssign == \E o \in DDictObjs, from \in DDictObjs : DDict_MoveAssign(o, from)
DDictDestroy == \E o \in DDictObjs, c \in BOOLEAN : DDict_Dtor(o, c)

\* The life of the dictionary objects: construction from (here untrained)
\* TrainData, moves and destruction.
Next ==
    \/ CDictCreate
    \/ CDictMove
    \/ CDictAssign
    \/ CDictDestroy
    \/ DDictCreate
    \/ DDictMove
    \/ DDictAssign
    \/ DDictDestroy

Spec == Init /\ [][Next]_vars

\* ------------------------------------------- threads using the two facades
\* The state the worker threads start from: the main thread has trained each
\* TrainData on a corpus and built the dictionary objects from them.
TrainOf(o) == ((o - 1) % NumTrain) + 1
CorpusOf(d) == ((d - 1) % NumCorpus) + 1
LevelOf(o) == ((o - 1) % MaxCLevel) + 1

InitCodec ==
    /\ mDictBuffer = [d \in TrainObjs |->
           [size |-> DefaultTrainSize, content |-> CorpusOf(d), writes |-> 1]]
    /\ cdict = [o \in CDictObjs |->
           IF o \in Handles THEN [life |-> "live", mDict |-> o]
           ELSE [life |-> "none", mDict |-> NULL]]
    /\ ddict = [o \in DDictObjs |->
           IF o \in Handles THEN [life |-> "live", mDict |-> o]
           ELSE [life |-> "none", mDict |-> NULL]]
    /\ engCDict = [h \in Handles |->
           IF h \in CDictObjs
           THEN [st |-> "live", frees |-> 0, content |-> CorpusOf(TrainOf(h)), level |-> LevelOf(h)]
           ELSE FreshCell]
    /\ engDDict = [h \in Handles |->
           IF h \in DDictObjs
           THEN [st |-> "live", frees |-> 0, content |-> CorpusOf(TrainOf(h)), level |-> 0]
           ELSE FreshCell]
    /\ thread = [t \in Threads |-> "running"]
    /\ compressInstr = [t \in Threads |-> NoInstr]
    /\ decompressInstr = [t \in Threads |-> NoInstr]
    /\ engCCtx = [h \in Handles |-> FreshCtx]
    /\ engDCtx = [h \in Handles |-> FreshCtx]
    /\ dst = [t \in Threads |-> <<>>]
    /\ origin = [t \in Threads |-> Unknown]
    /\ last = [op |-> "DDict", status |-> "ok"]
    /\ crashed = FALSE

\* Whether the engine can allocate a context matters to a call only while
\* the thread's instr is not constructed.
AllocChoices(instr) == IF instr.init THEN {TRUE} ELSE BOOLEAN

\* Several threads, each calling the facades on one small payload.
ConcPayload == <<0>>

ConcCompress ==
    \E t \in Threads : \E allocOk \in AllocChoices(compressInstr[t]) :
        Compress_compress_vec(t, ConcPayload, Len(ConcPayload), MaxCLevel, allocOk, FALSE)
ConcCompressRaw ==
    \E t \in Threads, cap \in {0, Compress_compressbound(Len(ConcPayload))} :
      \E allocOk \in AllocChoices(compressInstr[t]) :
        Compress_compress_raw(t, cap, ConcPayload, Len(ConcPayload), MaxCLevel, allocOk, FALSE)
ConcCompressDict ==
    \E t \in Threads : \E allocOk \in AllocChoices(compressInstr[t]) :
        Compress_compress_dict_vec(t, 1, ConcPayload, Len(ConcPayload), allocOk, FALSE)
ConcCompressDictRaw ==
    \E t \in Threads, cap \in {0, Compress_compressbound(Len(ConcPayload))} :
      \E allocOk \in AllocChoices(compressInstr[t]) :
        Compress_compress_dict_raw(t, 1, cap, ConcPayload, Len(ConcPayload), allocOk, FALSE)
ConcDecompress ==
    \E t \in Threads : \E allocOk \in AllocChoices(decompressInstr[t]) :
        Decompress_decompress(t, Len(ConcPayload), dst[t], Len(dst[t]), origin[t], allocOk, FALSE)
ConcDecompressDict ==
    \E t \in Threads : \E allocOk \in AllocChoices(decompressInstr[t]) :
        Decompress_decompress_dict(t, 1, Len(ConcPayload), dst[t], Len(dst[t]), origin[t], allocOk, FALSE)
ConcExit == \E t \in Threads : Thread_exit(t)

NextConc ==
    \/ ConcCompress
    \/ ConcCompressRaw
    \/ ConcCompressDict
    \/ ConcCompressDictRaw
    \/ ConcDecompress
    \/ ConcDecompressDict
    \/ ConcExit

SpecConc == InitCodec /\ [][NextConc]_vars

\* One thread, calling the facades on every payload, level, dictionary and
\* capacity; the engine may run out of memory in any call.
MainThread == Min(Threads)

\* Destination capacities of a compress call on src: one byte short of the
\* bound, the bound.
CompressCaps(src) ==
    {Compress_compressbound(Len(src)) - 1, Compress_compressbound(Len(src))}

\* Destination capacities of a decompress call on src: what the frame
\* declares, one byte less, the greatest payload length; for a source that
\* declares no size, none and the greatest payload length.
DecompressCaps(src) ==
    LET n == ZSTD_getFrameContentSize(src, Len(src)) IN
    IF n \in 0..MaxLen THEN {n, IF n > 0 THEN n - 1 ELSE 0, MaxLen} ELSE {0, MaxLen}

CallCompress ==
    \E src \in Payloads, l \in Levels, fault \in BOOLEAN :
      \E allocOk \in AllocChoices(compressInstr[MainThread]) :
        Compress_compress_vec(MainThread, src, Len(src), l, allocOk, fault)
CallCompressRaw ==
    \E src \in Payloads, l \in Levels :
      \E cap \in CompressCaps(src), allocOk \in AllocChoices(compressInstr[MainThread]) :
        Compress_compress_raw(MainThread, cap, src, Len(src), l, allocOk, FALSE)
CallCompressDict ==
    \E o \in CDictObjs, src \in Payloads, fault \in BOOLEAN :
      \E allocOk \in AllocChoices(compressInstr[MainThread]) :
        Compress_compress_dict_vec(MainThread, o, src, Len(src), allocOk, fault)
CallCompressDictRaw ==
    \E o \in CDictObjs, src \in Payloads :
      \E cap \in CompressCaps(src), allocOk \in AllocChoices(compressInstr[MainThread]) :
        Compress_compress_dict_raw(MainThread, o, cap, src, Len(src), allocOk, FALSE)
CallDecompress ==
    \E allocOk \in AllocChoices(decompressInstr[MainThread]) :
        \/ \E cap \in DecompressCaps(dst[MainThread]) :
               Decompress_decompress(MainThread, cap, dst[MainThread], Len(dst[MainThread]),
                                     origin[MainThread], allocOk, FALSE)
        \/ Decompress_decompress(MainThread, MaxLen, dst[MainThread], Len(dst[MainThread]),
                                 origin[MainThread], allocOk, TRUE)
        \/ \E f \in ForeignFrames : \E cap \in DecompressCaps(f) :
               Decompress_decompress(MainThread, cap, f, Len(f), Unknown, allocOk, FALSE)
CallDecompressDict ==
    \E allocOk \in AllocChoices(decompressInstr[MainThread]) :
        \/ \E o \in DDictObjs : \E cap \in DecompressCaps(dst[MainThread]) :
               Decompress_decompress_dict(MainThread, o, cap, dst[MainThread],
                                          Len(dst[MainThread]), origin[MainThread], allocOk, FALSE)
        \/ \E o \in DDictObjs :
               Decompress_decompress_dict(MainThread, o, MaxLen, dst[MainThread],
                                          Len(dst[MainThread]), origin[MainThread], allocOk, TRUE)
        \/ \E f \in ForeignFrames : \E cap \in DecompressCaps(f) :
               Decompress_decompress_dict(MainThread, Min(DDictObjs), cap, f, Len(f),
                                          Unknown, allocOk, FALSE)
CallFrameContentSize ==
    \/ Decompress_frameContentSize(MainThread, dst[MainThread], Len(dst[MainThread]),
                                   origin[MainThread])
    \/ \E f \in ForeignFrames : Decompress_frameContentSize(MainThread, f, Len(f), Unknown)
CallExit == Thread_exit(MainThread)

\* The level paths and the frame-size query.
NextCodec ==
    \/ CallCompress
    \/ CallCompressRaw
    \/ CallDecompress
    \/ CallFrameContentSize
    \/ CallExit

SpecCodec == InitCodec /\ [][NextCodec]_vars

\* The dictionary paths.
NextDictCodec ==
    \/ CallCompressDict
    \/ CallCompressDictRaw
    \/ CallDecompressDict
    \/ CallExit

SpecDictCodec == InitCodec /\ [][NextDictCodec]_vars

\* Every call shape of both facades on one thread, the compress calls on the
\* empty payload, on a run and on a payload that is no run.
MixPayloads == {<<>>, Repeat(1, MaxLen), [i \in 1..MaxLen |-> i % 2]}

MixCompress ==
    \E src \in MixPayloads, l \in Levels, fault \in BOOLEAN :
      \E allocOk \in AllocChoices(compressInstr[MainThread]) :
        Compress_compress_vec(MainThread, src, Len(src), l, allocOk, fault)
MixCompressRaw ==
    \E src \in MixPayloads, l \in Levels :
      \E cap \in CompressCaps(src), allocOk \in AllocChoices(compressInstr[MainThread]) :
        Compress_compress_raw(MainThread, cap, src, Len(src), l, allocOk, FALSE)
MixCompressDict ==
    \E o \in CDictObjs, src \in MixPayloads, fault \in BOOLEAN :
      \E allocOk \in AllocChoices(compressInstr[MainThread]) :
        Compress_compress_dict_vec(MainThread, o, src, Len(src), allocOk, fault)
MixCompressDictRaw ==
    \E o \in CDictObjs, src \in MixPayloads :
      \E cap \in CompressCaps(src), allocOk \in AllocChoices(compressInstr[MainThread]) :
        Compress_compress_dict_raw(MainThread, o, cap, src, Len(src), allocOk, FALSE)

NextAll ==
    \/ MixCompress
    \/ MixCompressRaw
    \/ MixCompressDict
    \/ MixCompressDictRaw
    \/ CallDecompress
    \/ CallDecompressDict
    \/ CallFrameContentSize
    \/ CallExit

SpecAll == InitCodec /\ [][NextAll]_vars

\* TrainData objects constructed with the default or with a small capacity,
\* trained any number of times and read.
SmallTrainSize == 4
TrainSizes == {SmallTrainSize, DefaultTrainSize}

InitTrain ==
    /\ mDictBuffer \in [TrainObjs -> {[size |-> n, content |-> 0, writes |-> 0] :
                                         n \in TrainSizes}]
    /\ cdict = [o \in CDictObjs |-> [life |-> "none", mDict |-> NULL]]
    /\ ddict = [o \in DDictObjs |-> [life |-> "none", mDict |-> NULL]]
    /\ engCDict = [h \in Handles |-> FreshCell]
    /\ engDDict = [h \in Handles |-> FreshCell]
    /\ thread = [t \in Threads |-> "running"]
    /\ compressInstr = [t \in Threads |-> NoInstr]
    /\ decompressInstr = [t \in Threads |-> NoInstr]
    /\ engCCtx = [h \in Handles |-> FreshCtx]
    /\ engDCtx = [h \in Handles |-> FreshCtx]
    /\ dst = [t \in Threads |-> <<>>]
    /\ origin = [t \in Threads |-> Unknown]
    /\ last = NoCall
    /\ crashed = FALSE

TrainRead == \E d \in TrainObjs : TrainData_read(d)

NextTrain ==
    \/ Train
    \/ TrainRead

SpecTrain == InitTrain /\ [][NextTrain]_vars

\* The dictionary paths with a TrainData that was never trained: the first
\* TrainData is left as constructed, the others are trained, and the
\* dictionary objects are built from them as before.
TrainedOn(d) == IF d = Min(TrainObjs) THEN 0 ELSE CorpusOf(d)

InitUntrained ==
    /\ mDictBuffer = [d \in TrainObjs |->
           [size |-> DefaultTrainSize, content |-> TrainedOn(d),
            writes |-> IF TrainedOn(d) = 0 THEN 0 ELSE 1]]
    /\ cdict = [o \in CDictObjs |->
           IF o \in Handles THEN [life |-> "live", mDict |-> o]
           ELSE [life |-> "none", mDict |-> NULL]]
    /\ ddict = [o \in DDictObjs |->
           IF o \in Handles THEN [life |-> "live", mDict |-> o]
           ELSE [life |-> "none", mDict |-> NULL]]
    /\ engCDict = [h \in Handles |->
           IF h \in CDictObjs
           THEN [st |-> "live", frees |-> 0, content |-> TrainedOn(TrainOf(h)), level |-> LevelOf(h)]
           ELSE FreshCell]
    /\ engDDict = [h \in Handles |->
           IF h \in DDictObjs
           THEN [st |-> "live", frees |-> 0, content |-> TrainedOn(TrainOf(h)), level |-> 0]
           ELSE FreshCell]
    /\ thread = [t \in Threads |-> "running"]
    /\ compressInstr = [t \in Threads |-> NoInstr]
    /\ decompressInstr = [t \in Threads |-> NoInstr]
    /\ engCCtx = [h \in Handles |-> FreshCtx]
    /\ engDCtx = [h \in Handles |-> FreshCtx]
    /\ dst = [t \in Threads |-> <<>>]
    /\ origin = [t \in Threads |-> Unknown]
    /\ last = [op |-> "DDict", status |-> "ok"]
    /\ crashed = FALSE

SpecUntrained == InitUntrained /\ [][NextDictCodec]_vars

\* Several threads using the first CDict and the first DDict while the main
\* thread move-assigns to these two objects and trains the first TrainData.
FirstOf(S) == Min(S)
SecondOf(S) == Min(S \ {Min(S)})

SharedCompress ==
    \E t \in Threads :
        Compress_compress_dict_vec(t, FirstOf(CDictObjs), ConcPayload, Len(ConcPayload),
                                   TRUE, FALSE)
SharedDecompress ==
    \E t \in Threads :
        Decompress_decompress_dict(t, FirstOf(DDictObjs), Len(ConcPayload), dst[t],
                                   Len(dst[t]), origin[t], TRUE, FALSE)
SharedFrameContentSize ==
    \E t \in Threads : Decompress_frameContentSize(t, dst[t], Len(dst[t]), origin[t])
SharedCDictAssign == CDict_MoveAssign(FirstOf(CDictObjs), SecondOf(CDictObjs))
SharedDDictAssign == DDict_MoveAssign(FirstOf(DDictObjs), SecondOf(DDictObjs))
SharedTrain ==
    \E ok \in BOOLEAN, touched \in BOOLEAN :
        TrainData_train(FirstOf(TrainObjs), CorpusOf(SecondOf(TrainObjs)), ok, touched)

NextShared ==
    \/ SharedCompress
    \/ SharedDecompress
    \/ SharedFrameContentSize
    \/ SharedCDictAssign
    \/ SharedDDictAssign
    \/ SharedTrain

SpecShared == InitCodec /\ [][NextShared]_vars

\* A program that builds its dictionary objects one after the other from
\* (here untrained) TrainData, uses them on one thread and destroys them,
\* without moving any; the engine may fail to allocate a dictionary or context.
\* The objects being alike, they are taken in the order of their indices.
Unbuilt(objs) == {o \in DOMAIN objs : objs[o].life = "none"}

BuildCDict ==
    \E ok \in BOOLEAN :
        /\ Unbuilt(cdict) # {}
        /\ LET o == Min(Unbuilt(cdict)) IN CDict_Ctor(o, TrainOf(o), LevelOf(o), ok)
BuildDDict ==
    \E ok \in BOOLEAN :
        /\ Unbuilt(ddict) # {}
        /\ LET o == Min(Unbuilt(ddict)) IN DDict_Ctor(o, TrainOf(o), ok)
BuildCompressDict ==
    \E o \in CDictObjs : \E allocOk \in AllocChoices(compressInstr[MainThread]) :
        Compress_compress_dict_vec(MainThread, o, ConcPayload, Len(ConcPayload), allocOk, FALSE)
BuildDecompressDict ==
    \E o \in DDictObjs : \E allocOk \in AllocChoices(decompressInstr[MainThread]) :
        Decompress_decompress_dict(MainThread, o, Len(ConcPayload), dst[MainThread],
                                   Len(dst[MainThread]), origin[MainThread], allocOk, FALSE)

NextBuild ==
    \/ BuildCDict
    \/ BuildDDict
    \/ CDictDestroy
    \/ DDictDestroy
    \/ BuildCompressDict
    \/ BuildDecompressDict
    \/ CallExit

SpecBuild == Init /\ [][NextBuild]_vars

\* A program that also move-constructs its dictionary objects, and hands the
\* facades whichever object is alive.  A dictionary the engine has freed is
\* memory the engine no longer owns: a call that passes it is undefined, and
\* either brings the process down or returns with bytes nobody can rely on.
ReleasedHandle(heap, h) == h # NULL /\ heap[h].st = "freed"

Compress_compress_dict_released(t, o, srcSize, ubCrash) ==
    LET acq == Compress_Acquire(t, TRUE) IN
    /\ ~crashed
    /\ thread[t] = "running"
    /\ cdict[o].life = "live"
    /\ ReleasedHandle(engCDict, CDict_get(o))
    /\ compressInstr' = acq.instr
    /\ engCCtx' = UseCtx(acq.heap, acq.ctx, t)
    /\ dst' = [dst EXCEPT ![t] = Resize(@, Compress_compressbound(srcSize))]
    /\ origin' = [origin EXCEPT ![t] = Unknown]
    /\ crashed' = ubCrash
    /\ last' = [op |-> "compress_dict", t |-> t, status |-> "undefined",
                handle |-> CDict_get(o)]
    /\ UNCHANGED <<dictVars, thread, decompressInstr, engDCtx>>

Decompress_decompress_dict_released(t, o, ubCrash) ==
    LET acq == Decompress_Acquire(t, TRUE) IN
    /\ ~crashed
    /\ thread[t] = "running"
    /\ ddict[o].life = "live"
    /\ ReleasedHandle(engDDict, DDict_get(o))
    /\ decompressInstr' = acq.instr
    /\ engDCtx' = UseCtx(acq.heap, acq.ctx, t)
    /\ crashed' = ubCrash
    /\ last' = [op |-> "decompress_dict", t |-> t, status |-> "undefined",
                handle |-> DDict_get(o)]
    /\ UNCHANGED <<dictVars, thread, compressInstr, engCCtx, dst, origin>>

UseCDictMove ==
    /\ Unbuilt(cdict) # {}
    /\ \E from \in CDictObjs : CDict_MoveCtor(Min(Unbuilt(cdict)), from)
UseDDictMove ==
    /\ Unbuilt(ddict) # {}
    /\ \E from \in DDictObjs : DDict_MoveCtor(Min(Unbuilt(ddict)), from)
UseCompressDict ==
    \E o \in CDictObjs :
        /\ cdict[o].life = "live"
        /\ IF ReleasedHandle(engCDict, CDict_get(o))
           THEN \E ubCrash \in BOOLEAN :
                    Compress_compress_dict_released(MainThread, o, Len(ConcPayload), ubCrash)
           ELSE Compress_compress_dict_vec(MainThread, o, ConcPayload, Len(ConcPayload),
                                           TRUE, FALSE)
UseDecompressDict ==
    \E o \in DDictObjs :
        /\ ddict[o].life = "live"
        /\ IF ReleasedHandle(engDDict, DDict_get(o))
           THEN \E ubCrash \in BOOLEAN :
                    Decompress_decompress_dict_released(MainThread, o, ubCrash)
           ELSE Decompress_decompress_dict(MainThread, o, Len(ConcPayload), dst[MainThread],
                                           Len(dst[MainThread]), origin[MainThread],
                                           TRUE, FALSE)

NextUse ==
    \/ BuildCDict
    \/ UseCDictMove
    \/ CDictDestroy
    \/ UseCompressDict
    \/ BuildDDict
    \/ UseDDictMove
    \/ DDictDestroy
    \/ UseDecompressDict

SpecUse == Init /\ [][NextUse]_vars

\* ==================================================================== claims

CDictHeld(h) == \E o \in CDictObjs : cdict[o].life = "live" /\ cdict[o].mDict = h
DDictHeld(h) == \E o \in DDictObjs : ddict[o].life = "live" /\ ddict[o].mDict = h

\* C1: across construct, move-construct, move-assign and destroy, no handle
\* obtained from the engine is passed to the engine's free function a second
\* time.
C1_ReleasedAtMostOnce ==
    /\ \A h \in Handles : engCDict[h].frees <= 1
    /\ \A h \in Handles : engDDict[h].frees <= 1

\* C2: each live engine dictionary handle has exactly one owner: no two
\* living CDict objects (respectively DDict objects) hold the same handle.
C2_ExactlyOneOwner ==
    /\ \A a, b \in CDictObjs :
           (a # b /\ cdict[a].life = "live" /\ cdict[b].life = "live"
                  /\ cdict[a].mDict # NULL) => cdict[a].mDict # cdict[b].mDict
    /\ \A a, b \in DDictObjs :
           (a # b /\ ddict[a].life = "live" /\ ddict[b].life = "live"
                  /\ ddict[a].mDict # NULL) => ddict[a].mDict # ddict[b].mDict

\* C3: once every CDict/DDict object has been destroyed, every handle the
\* engine created for them has been released.
C3_NoHandleLeaked ==
    ((\A o \in CDictObjs : cdict[o].life # "live") /\ (\A o \in DDictObjs : ddict[o].life # "live"))
        => /\ \A h \in Handles : engCDict[h].st # "live"
           /\ \A h \in Handles : engDDict[h].st # "live"

Created(heap, t) == {h \in Handles : heap[h].st # "unalloc" /\ heap[h].creator = t}

\* C4: under every interleaving of the threads' calls, each engine call made
\* by a thread uses a context that thread created, no context is used by a
\* thread other than its creator, and no two threads' instr hold the same
\* context.
C4_ContextPrivateToThread ==
    /\ \A h \in Handles : engCCtx[h].st # "unalloc" => engCCtx[h].users \subseteq {engCCtx[h].creator}
    /\ \A h \in Handles : engDCtx[h].st # "unalloc" => engDCtx[h].users \subseteq {engDCtx[h].creator}
    /\ \A a, b \in Threads :
           (a # b /\ compressInstr[a].init /\ compressInstr[b].init)
               => compressInstr[a].mContext # compressInstr[b].mContext
    /\ \A a, b \in Threads :
           (a # b /\ decompressInstr[a].init /\ decompressInstr[b].init)
               => decompressInstr[a].mContext # decompressInstr[b].mContext
    /\ (last.op \in CompressOps /\ last.calls = 1) => engCCtx[last.ctx].creator = last.t
    /\ (last.op \in DecompressOps /\ last.calls = 1) => engDCtx[last.ctx].creator = last.t

\* Two running threads have each compressed and decompressed with contexts
\* of their own.
C4_Witness ==
    \E a, b \in Threads :
        /\ a # b /\ thread[a] = "running" /\ thread[b] = "running"
        /\ \A t \in {a, b} :
               /\ compressInstr[t].init /\ engCCtx[compressInstr[t].mContext].users = {t}
               /\ decompressInstr[t].init /\ engDCtx[decompressInstr[t].mContext].users = {t}

\* C5: a thread has at most one compression and at most one decompression
\* context; a context exists only once its thread has made a call with it;
\* every call that reaches the engine, in any call shape and also after a
\* failed call, uses the context the thread's instr holds.
C5_OneContextPerThread ==
    /\ \A t \in Threads : Cardinality(Created(engCCtx, t)) <= 1
    /\ \A t \in Threads : Cardinality(Created(engDCtx, t)) <= 1
    /\ \A t \in Threads : thread[t] = "running" =>
           IF compressInstr[t].init
           THEN /\ Created(engCCtx, t) = {compressInstr[t].mContext}
                /\ t \in engCCtx[compressInstr[t].mContext].users
           ELSE Created(engCCtx, t) = {}
    /\ \A t \in Threads : thread[t] = "running" =>
           IF decompressInstr[t].init
           THEN /\ Created(engDCtx, t) = {decompressInstr[t].mContext}
                /\ t \in engDCtx[decompressInstr[t].mContext].users
           ELSE Created(engDCtx, t) = {}
    /\ (last.op \in CompressOps /\ last.calls = 1) => last.ctx = compressInstr[last.t].mContext
    /\ (last.op \in DecompressOps /\ last.calls = 1) => last.ctx = decompressInstr[last.t].mContext

\* A dictionary compress into the managed vector succeeds on the context the
\* thread already had, right after a call of the thread on it failed with an
\* engine error.
C5_Witness ==
    /\ last.op = "compress_dict"
    /\ last.status = "ok"
    /\ last.reused
    /\ last.after
    /\ last.ctx = compressInstr[last.t].mContext
    /\ decompressInstr[last.t].init

\* C6: a context is released only at the teardown of the thread that created
\* it, and at that teardown it is released, exactly once.
C6_ContextFreedAtTeardown ==
    /\ \A h \in Handles : engCCtx[h].st # "unalloc" =>
           /\ engCCtx[h].frees <= 1
           /\ (engCCtx[h].st = "freed") <=> (thread[engCCtx[h].creator] = "exited")
           /\ (engCCtx[h].st = "freed") => engCCtx[h].frees = 1
    /\ \A h \in Handles : engDCtx[h].st # "unalloc" =>
           /\ engDCtx[h].frees <= 1
           /\ (engDCtx[h].st = "freed") <=> (thread[engDCtx[h].creator] = "exited")
           /\ (engDCtx[h].st = "freed") => engDCtx[h].frees = 1

\* One thread has exited and its two contexts are freed while another thread
\* still runs with live contexts.
C6_Witness ==
    \E a, b \in Threads :
        /\ thread[a] = "exited" /\ thread[b] = "running"
        /\ \E h \in Created(engCCtx, a) : engCCtx[h].st = "freed" /\ engCCtx[h].frees = 1
        /\ \E h \in Created(engDCtx, a) : engDCtx[h].st = "freed" /\ engDCtx[h].frees = 1
        /\ compressInstr[b].init /\ engCCtx[compressInstr[b].mContext].st = "live"
        /\ decompressInstr[b].init /\ engDCtx[decompressInstr[b].mContext].st = "live"

\* C7: in every compress and decompress call shape the engine is invoked at
\* most once, and exactly once in every call that obtained its context; an
\* error code makes the call fail with ZError, and any other result is what
\* the call returns as the written length (the managed vector's new size).
C7_EngineErrorsPropagate ==
    last.op \in (CompressOps \cup DecompressOps) =>
        /\ last.calls <= 1
        /\ last.status # "bad_alloc" => last.calls = 1
        /\ last.calls = 1 =>
               /\ ZSTD_isError(last.res) => last.status = "ZError"
               /\ ~ZSTD_isError(last.res) => (last.status = "ok" /\ last.val = last.res)
        /\ (last.op \in ManagedOps /\ last.status = "ok") => Len(dst[last.t]) = last.res

\* A dictionary decompress fails with ZError on the engine's only invocation.
C7_Witness ==
    /\ last.op = "decompress_dict"
    /\ last.status = "ZError"
    /\ last.calls = 1
    /\ ZSTD_isError(last.res)

\* C8: frameContentSize fails with ZUnknownSize when the engine reports
\* that the frame declares no size, with a ZError that is no ZUnknownSize
\* when the engine reports an error, and otherwise returns the engine's size,
\* which for a frame that compress produced is the length of the payload.
C8_FrameContentSize ==
    last.op = "frameContentSize" =>
        /\ last.res = ZSTD_CONTENTSIZE_UNKNOWN => last.status = "ZUnknownSize"
        /\ last.res = ZSTD_CONTENTSIZE_ERROR => last.status = "ZError"
        /\ last.res \notin {ZSTD_CONTENTSIZE_UNKNOWN, ZSTD_CONTENTSIZE_ERROR}
               => (last.status = "ok" /\ last.val = last.res)
        /\ last.status = "ok" => last.val \notin {ZSTD_CONTENTSIZE_UNKNOWN, ZSTD_CONTENTSIZE_ERROR}
        /\ last.org.known => (last.status = "ok" /\ last.val = Len(last.org.src))

\* frameContentSize fails with ZUnknownSize on a frame that declares no size.
C8_Witness ==
    /\ last.op = "frameContentSize"
    /\ last.status = "ZUnknownSize"
    /\ last.res = ZSTD_CONTENTSIZE_UNKNOWN

\* C9: decompressing what compress(P, L) produced, into a destination of
\* capacity len(P), succeeds, reports len(P) bytes and yields P, whatever
\* calls the thread's contexts served before (the engine not running out of
\* memory in the call).
C9_RoundTrip ==
    ( /\ last.op = "decompress"
      /\ last.org.known
      /\ last.org.dict = NoDict
      /\ last.cap = Len(last.org.src)
      /\ ~last.fault
      /\ last.status # "bad_alloc" )
    => /\ last.status = "ok"
       /\ last.val = Len(last.org.src)
       /\ last.out = last.org.src

\* A run of two bytes, compressed into a frame shorter than the bound, comes
\* back from a context the thread already had, right after a failed decompress.
C9_Witness ==
    /\ last.op = "decompress"
    /\ last.status = "ok"
    /\ last.org.known
    /\ last.org.src = <<1, 1>>
    /\ last.out = <<1, 1>>
    /\ Len(dst[last.t]) < Compress_compressbound(Len(last.org.src))
    /\ last.reused
    /\ last.after

\* C10: decompressing with a DDict what compress produced with a CDict built
\* from the same trained TrainData succeeds and yields the payload (the
\* destination holding it, the engine not running out of memory in the call).
C10_RoundTripDict ==
    ( /\ last.op = "decompress_dict"
      /\ last.org.known
      /\ last.org.dict # NoDict
      /\ last.dictc = last.org.dict
      /\ last.cap >= Len(last.org.src)
      /\ ~last.fault
      /\ last.status # "bad_alloc" )
    => /\ last.status = "ok"
       /\ last.val = Len(last.org.src)
       /\ last.out = last.org.src

\* A payload of the greatest length comes back through matching dictionaries.
C10_Witness ==
    /\ last.op = "decompress_dict"
    /\ last.status = "ok"
    /\ last.org.known
    /\ last.org.dict # NoDict
    /\ last.dictc = last.org.dict
    /\ Len(last.org.src) = MaxLen
    /\ last.out = last.org.src

\* C11: a compress into the managed vector, with a level or a dictionary,
\* hands the engine the vector grown to compressBound(srcSize); after a
\* successful call the vector's length is the number of bytes the engine
\* wrote, which is at most that bound.
C11_ManagedBound ==
    last.op \in ManagedOps =>
        /\ last.cap = ZSTD_compressBound(last.srcSize)
        /\ last.status = "ok" =>
               /\ Len(dst[last.t]) = last.res
               /\ last.val = last.res
               /\ last.res <= ZSTD_compressBound(last.srcSize)

\* A dictionary compress of a run leaves the vector shorter than the bound
\* it was grown to.
C11_Witness ==
    /\ last.op = "compress_dict"
    /\ last.status = "ok"
    /\ last.srcSize = MaxLen
    /\ last.cap = ZSTD_compressBound(MaxLen)
    /\ Len(dst[last.t]) = last.res
    /\ last.res < last.cap

RawOps == CompressOps \ ManagedOps

\* C12 as stated: in every compress call, of either shape and on either path,
\* the destination the engine writes into has capacity compressBound(srcSize).
C12_AlwaysSizedByBound ==
    last.op \in CompressOps => last.cap = ZSTD_compressBound(last.srcSize)

\* C12, amended: the managed shape sizes the vector by the bound; the
\* caller-supplied shape hands the engine the caller's capacity as it is, the
\* engine writes no more than that, and a capacity of the bound is enough.
C12_CapacityGivenToEngine ==
    /\ last.op \in ManagedOps => last.cap = ZSTD_compressBound(last.srcSize)
    /\ (last.op \in RawOps /\ last.status = "ok") =>
           /\ last.res <= last.cap
           /\ last.val = last.res
           /\ Len(dst[last.t]) = last.res
    /\ ( /\ last.op \in RawOps
         /\ last.calls = 1
         /\ ~last.fault
         /\ last.cap >= ZSTD_compressBound(last.srcSize) ) => last.status = "ok"
    /\ ( /\ last.op \in RawOps
         /\ ~last.fault
         /\ last.status = "ZError" ) => last.cap < ZSTD_compressBound(last.srcSize)

\* A compress into a caller's destination one byte short of the bound
\* succeeds, the frame of a run being shorter than the bound.
C12_Witness ==
    /\ last.op \in RawOps
    /\ last.status = "ok"
    /\ last.cap = ZSTD_compressBound(last.srcSize) - 1
    /\ last.res <= last.cap

\* C13: a creation for which the engine returns a null handle ends in
\* bad_alloc, never in ZError; no CDict, DDict or instr that came to life
\* holds a null handle, so none with a null handle is used or destroyed and
\* the free function is never called for a failed creation; the call that
\* could not create its context has not called the engine.
C13_AllocationFailure ==
    /\ \A o \in CDictObjs : cdict[o].life # "none" =>
           cdict[o].mDict # NULL /\ engCDict[cdict[o].mDict].st # "unalloc"
    /\ \A o \in DDictObjs : ddict[o].life # "none" =>
           ddict[o].mDict # NULL /\ engDDict[ddict[o].mDict].st # "unalloc"
    /\ \A t \in Threads : compressInstr[t].init =>
           compressInstr[t].mContext # NULL /\ engCCtx[compressInstr[t].mContext].st = "live"
    /\ \A t \in Threads : decompressInstr[t].init =>
           decompressInstr[t].mContext # NULL /\ engDCtx[decompressInstr[t].mContext].st = "live"
    /\ last.op \in {"CDict", "DDict"} => last.status \in {"ok", "bad_alloc"}
    /\ (last.op \in CompressOps /\ last.calls = 0) =>
           /\ last.status = "bad_alloc"
           /\ last.ctx = NULL
           /\ ~compressInstr[last.t].init
    /\ (last.op \in DecompressOps /\ last.calls = 0) =>
           /\ last.status = "bad_alloc"
           /\ last.ctx = NULL
           /\ ~decompressInstr[last.t].init
    /\ (last.op \in CompressOps \cup DecompressOps /\ last.status = "bad_alloc") =>
           last.calls = 0
    /\ \A h \in Handles :
           /\ engCDict[h].frees = Cardinality({o \in CDictObjs :
                                       cdict[o].life = "dead" /\ cdict[o].mDict = h})
           /\ engDDict[h].frees = Cardinality({o \in DDictObjs :
                                       ddict[o].life = "dead" /\ ddict[o].mDict = h})

\* A decompress with a living dictionary could not create its context, after
\* one dictionary was destroyed and while a CDict is still unbuilt.
C13_Witness ==
    /\ last.op = "decompress_dict"
    /\ last.status = "bad_alloc"
    /\ ~decompressInstr[last.t].init
    /\ \E o \in DDictObjs : ddict[o].life = "dead"
    /\ \E o \in CDictObjs : cdict[o].life = "none"
    /\ \E o \in CDictObjs : cdict[o].life = "live"

\* C14: decompressing, with a DDict, a frame that was compressed with a CDict
\* built from other TrainData contents ends in ZError: it returns no written
\* size and yields no bytes.
C14_MismatchFails ==
    ( /\ last.op = "decompress_dict"
      /\ last.calls = 1
      /\ last.org.known
      /\ last.org.withDict
      /\ last.org.dict # last.dictc )
    => /\ last.status = "ZError"
       /\ last.val = 0
       /\ last.out = <<>>

\* What a step does to the TrainData buffers' sizes, and what size() reports.
C15_Step ==
    /\ \A d \in TrainObjs : mDictBuffer'[d].size = mDictBuffer[d].size
    /\ last'.op = "size" => last'.val = mDictBuffer[last'.d].size

\* C15: no step changes the size of a TrainData buffer, so size() is at all
\* times the capacity the object was constructed with, after train calls that
\* succeeded and after train calls that failed; size() reports that size.
C15_CapacityFixed == [][C15_Step]_vars

\* A TrainData of the small capacity was written by two train calls, the
\* last of which failed, and size() has just reported the small capacity.
C15_Witness ==
    /\ last.op = "size"
    /\ last.val = SmallTrainSize
    /\ mDictBuffer[last.d].writes = 2
    /\ mDictBuffer[last.d].content = Scribbled
    /\ \E d \in TrainObjs : mDictBuffer[d].size = DefaultTrainSize /\ mDictBuffer[d].writes > 0

\* C17: a TrainData buffer is written by at most one train call; once
\* written, no later operation, a second train call included, writes it.
C17_WrittenOnce ==
    \A d \in TrainObjs : mDictBuffer[d].writes <= 1

CodecOps == CompressOps \cup DecompressOps \cup {"frameContentSize"}

\* What a step may change of the dictionary objects and the TrainData buffers.
C16_Step ==
    /\ last'.op \in CodecOps =>
           UNCHANGED <<mDictBuffer, cdict, ddict, engCDict, engDDict>>
    /\ cdict' # cdict => last'.op \in {"CDict", "CDict(&&)", "CDict=", "~CDict"}
    /\ ddict' # ddict => last'.op \in {"DDict", "DDict(&&)", "DDict=", "~DDict"}
    /\ mDictBuffer' # mDictBuffer => last'.op = "train"

\* C16: no compress, decompress or frameContentSize call of any thread
\* changes a CDict's or DDict's handle, the engine's dictionaries or a
\* TrainData buffer; a dictionary object changes only in its constructors,
\* its move-assignment and its destructor, a TrainData buffer only in train.
C16_ReadOnly == [][C16_Step]_vars

\* Two threads hold frames they compressed with the first CDict, one of them
\* has just decompressed its frame with the first DDict, and both objects
\* were move-assigned to and the first TrainData trained in between.
C16_Witness ==
    /\ last.op = "decompress_dict"
    /\ last.status = "ok"
    /\ \E a, b \in Threads :
           /\ a # b
           /\ origin[a].known /\ origin[a].withDict
           /\ origin[b].known /\ origin[b].withDict
           /\ origin[a].dict # origin[b].dict
    /\ cdict[FirstOf(CDictObjs)].mDict = cdict[SecondOf(CDictObjs)].mDict
    /\ ddict[FirstOf(DDictObjs)].mDict = ddict[SecondOf(DDictObjs)].mDict
    /\ mDictBuffer[FirstOf(TrainObjs)].writes = 2

\* C18: after a managed compress (level or dictionary overload) that failed
\* with an engine error, the caller's vector has the length
\* compressbound(srcSize) the call gave it before calling the engine: it was
\* neither shrunk to a produced size nor given back its earlier length.
C18_FailedLeavesBound ==
    (last.op \in ManagedOps /\ last.status = "ZError") =>
        /\ thread[last.t] = "running"
        /\ Len(dst[last.t]) = ZSTD_compressBound(last.srcSize)
        /\ ~origin[last.t].known

\* A managed compress of a non-empty source failed on a vector that held the
\* frame of an empty source: the vector still starts with that frame, and is
\* longer than it was.
C18_Witness ==
    /\ last.op \in ManagedOps
    /\ last.status = "ZError"
    /\ last.calls = 1
    /\ last.srcSize = MaxLen
    /\ SubSeq(dst[last.t], 1, FrameOverhead) = ZSTD_Encode(<<>>, 1, NoDict)
    /\ Len(dst[last.t]) = FrameOverhead + MaxLen

\* C19: the handle get() returns for a dictionary object that has not been
\* destroyed is one the engine created and has not freed, and no compress or
\* decompress call hands the engine a dictionary handle already released.
C19_NoReleasedHandle ==
    /\ \A o \in CDictObjs :
           cdict[o].life = "live" =>
               /\ CDict_get(o) # NULL
               /\ engCDict[CDict_get(o)].st = "live"
    /\ \A o \in DDictObjs :
           ddict[o].life = "live" =>
               /\ DDict_get(o) # NULL
               /\ engDDict[DDict_get(o)].st = "live"
    /\ last.op \in DictOps => last.status # "undefined"

====
